---- MODULE Spec2Model ----
(***************************************************************************)
(* Model of the session sampler and the exemplar generator of ADER         *)
(* (src/util.py): class Sampler and class ExemplarGenerator.               *)
(*                                                                         *)
(* Python lists and numpy arrays are sequences; Python's 0-based positions *)
(* are kept 1-based here, so data_indices holds a permutation of           *)
(* 1..len(prepared_data) where the code holds one of 0..len-1.             *)
(***************************************************************************)
EXTENDS Integers, Sequences, FiniteSets, TLC

(***************************************************************************)
(* Bounds of the model.                                                    *)
(***************************************************************************)
\* longest session given to the Sampler constructor
MaxSessLen == 3
\* most pool mutations (add_exemplar, split_data) in one behaviour
MaxMuts == 1
\* most sub-sequences in the data given to the ExemplarGenerator constructor
MaxGenData == 3
\* largest exemplar_size (total budget m) of an ExemplarGenerator
MaxBudget == 2
\* most selection calls on one ExemplarGenerator
MaxSelections == 2
\* largest target m of a herding() call followed iteration by iteration
MaxTarget == 50

\* most sessions in the data given to the Sampler constructor
SessionCounts == 0..2
\* len(prepared_data) never exceeds this in the model
MaxPool == MaxSessLen
\* batch_counter is not driven beyond this (it grows without limit on an
\* empty pool and after a shrinking split_data)
MaxCounter == MaxPool + 1
\* the values of maxlen and batch_size the objects are constructed with
MaxlenSet == {1, 2}
BatchSizeSet == {1, 2}
\* the numbers of candidates of a herding() call followed iteration by
\* iteration
CandidateCounts == {1, 2, MaxTarget}
\* the values of max_item an ExemplarGenerator is constructed with
MaxItemSet == {3}
\* the values a per-session loss takes (only their order matters)
LossVals == 1..3

(***************************************************************************)
(* Helpers on sequences.                                                   *)
(***************************************************************************)
Range(s) == {s[i] : i \in DOMAIN s}

Min(a, b) == IF a <= b THEN a ELSE b

RECURSIVE Concat(_)
\* the concatenation of a sequence of sequences
Concat(ss) == IF ss = <<>> THEN <<>> ELSE Head(ss) \o Concat(Tail(ss))

RECURSIVE SumSeq(_)
\* the sum of a sequence of numbers
SumSeq(ns) == IF ns = <<>> THEN 0 ELSE Head(ns) + SumSeq(Tail(ns))

RECURSIVE SeqsUpTo(_, _)
\* the sequences over S of length at most n
SeqsUpTo(S, n) ==
    IF n = 0 THEN {<<>>}
    ELSE LET shorter == SeqsUpTo(S, n - 1)
         IN  shorter \cup {Append(s, x) : s \in {t \in shorter : Len(t) = n - 1}, x \in S}

RECURSIVE Perms(_)
\* random.shuffle / np.random.shuffle: every ordering of the set S can result
Perms(S) ==
    IF S = {} THEN {<<>>}
    ELSE UNION {{<<x>> \o p : p \in Perms(S \ {x})} : x \in S}

\* the orderings of 1..n for every length a pool or a candidate list has,
\* tabulated once
ShuffleTable ==
    [n \in 0..(IF MaxPool >= MaxGenData THEN MaxPool ELSE MaxGenData) |-> Perms(1..n)]

\* random.shuffle(list(range(n)))
Shuffles(n) == ShuffleTable[n]

(***************************************************************************)
(* Sampler: the pure parts.                                                *)
(***************************************************************************)
\* a slip in the range: range(1, length) also yields the one-item prefix
TruncationsToOne(session) ==
    IF Len(session) > 2
    THEN [t \in 1..(Len(session) - 1) |-> SubSeq(session, 1, Len(session) - t)]
    ELSE <<>>

\* for t in range(1, length - 1): session[:-t]
Truncations(session) ==
    IF Len(session) > 2
    THEN [t \in 1..(Len(session) - 2) |-> SubSeq(session, 1, Len(session) - t)]
    ELSE <<>>

\* the entries one session contributes to prepared_data when is_subseq is False
ExpandSession(session) == <<session>> \o Truncations(session)

\* Sampler.__init__: the pool built from data
PreparedData(d, subseq) ==
    IF subseq THEN d
    ELSE Concat([k \in 1..Len(d) |-> ExpandSession(d[k])])

RECURSIVE LabelLoop(_, _, _)
\* the loop of label_generator: rest is the part of session[:-1] not yet
\* visited by reversed(), idx the code's 0-based write position
LabelLoop(seq, rest, idx) ==
    IF rest = <<>> THEN seq
    ELSE LET written == [i \in 1..Len(seq) |-> IF i = idx + 1 THEN rest[Len(rest)] ELSE seq[i]]
         IN  IF idx - 1 = -1 THEN written
             ELSE LabelLoop(written, SubSeq(rest, 1, Len(rest) - 1), idx - 1)

\* a slip: the items are written from the left end, padding on the right
label_generator_left(session, ml) ==
    << LabelLoop([i \in 1..ml |-> 0], SubSeq(session, 1, Len(session) - 1),
                 Min(Len(session) - 1, ml) - 1),
       session[Len(session)] >>

\* a slip: the label is not cut off the input
label_generator_all(session, ml) ==
    << LabelLoop([i \in 1..ml |-> 0], session, ml - 1), session[Len(session)] >>

\* Sampler.label_generator: <<seq, pos>>
label_generator(session, ml) ==
    << LabelLoop([i \in 1..ml |-> 0], SubSeq(session, 1, Len(session) - 1), ml - 1),
       session[Len(session)] >>

\* math.ceil(len(prepared_data) * 1.0 / batch_size)
BatchNum(n, bs) == (n + bs - 1) \div bs

\* a slip: a batch starts at batch_counter*(batch_size - 1), on the last
\* position of the batch before it
BatchIndexOverlap(pool, indices, bc, bs) ==
    LET cnt  == Cardinality({i \in 0..(bs - 1) : i + bc * (bs - 1) < Len(pool)})
        read == [k \in 1..cnt |-> indices[(k - 1) + bc * (bs - 1) + 1]]
    IN  SelectSeq(read, LAMBDA ix : ~(Len(pool[ix]) <= 1))

\* the pool indices one call of sampler()/exemplar_sampler() reads and keeps:
\* positions i + batch_counter*batch_size below len(prepared_data), minus the
\* sessions of length <= 1, which are skipped
BatchIndex(pool, indices, bc, bs) ==
    LET cnt  == Cardinality({i \in 0..(bs - 1) : i + bc * bs < Len(pool)})
        read == [k \in 1..cnt |-> indices[(k - 1) + bc * bs + 1]]
    IN  SelectSeq(read, LAMBDA ix : ~(Len(pool[ix]) <= 1))

\* np.round(x) for x = num/den >= 0: round half to even
RoundHalfEven(num, den) ==
    LET q == num \div den
        r == num % den
    IN  IF 2 * r < den THEN q
        ELSE IF 2 * r > den THEN q + 1
        ELSE IF q % 2 = 0 THEN q ELSE q + 1

\* valid_portion is quarters/4; these are exact in binary floating point
PortionDen == 4
Portions == 0..PortionDen

\* int(np.round(data_size * (1. - valid_portion)))
NTrain(data_size, quarters) == RoundHalfEven(data_size * (PortionDen - quarters), PortionDen)

\* a slip in the slice: sidx[n_train - 1:] shares a position with the training part
ValidDataOverlap(pool, sidx, n_train) ==
    IF n_train = 0 THEN [k \in 1..Len(pool) |-> pool[sidx[k]]]
    ELSE [k \in 1..(Len(pool) - n_train + 1) |-> pool[sidx[n_train - 1 + k]]]

\* [self.prepared_data[s] for s in sidx[n_train:]]
ValidData(pool, sidx, n_train) ==
    [k \in 1..(Len(pool) - n_train) |-> pool[sidx[n_train + k]]]

\* [self.prepared_data[s] for s in sidx[:n_train]]
TrainData(pool, sidx, n_train) == [k \in 1..n_train |-> pool[sidx[k]]]

(***************************************************************************)
(* Inputs of the Sampler.                                                  *)
(***************************************************************************)
\* the session 1, 2, ..., L: its items are distinct, so order is observable
Ramp(L) == [i \in 1..L |-> i]

Sessions == {Ramp(L) : L \in 0..MaxSessLen}

DataSet ==
    {d \in SeqsUpTo(Sessions, 2) :
        /\ Len(d) \in SessionCounts
        /\ Len(PreparedData(d, FALSE)) <= MaxPool}

\* exemplars handed to add_exemplar: (session, logits); a logits vector is
\* abstracted to a name
NoLogits == "none"
ExemplarSet == {<<Ramp(2), "lg_a">>, <<Ramp(3), "lg_b">>}
ExemplarLists == SeqsUpTo(ExemplarSet, 2)

(***************************************************************************)
(* Inputs of the ExemplarGenerator.                                        *)
(***************************************************************************)
\* sub-sequences over the items 1..3: three with label 2 (two of them with
\* the same last input item), one with label 3, one too short to be kept
GenSessions == <<(<<1>>), <<1, 2>>, <<3, 2>>, <<1, 3, 2>>, <<2, 3>>>>

\* the data lists in one order of their sessions: the constructor's Sampler
\* shuffles the pool before anything reads it, so the order the caller lists
\* the sessions in is not observable
GenDataSet ==
    {[k \in 1..Len(ix) |-> GenSessions[ix[k]]] :
        ix \in {jx \in SeqsUpTo(1..Len(GenSessions), MaxGenData) :
                   \A k \in 1..(Len(jx) - 1) : jx[k] <= jx[k + 1]}}

(***************************************************************************)
(* ExemplarGenerator: the pure parts.                                      *)
(***************************************************************************)
\* the batches the constructor's loop gets from its own Sampler(data,
\* maxlen, batch_size, is_subseq=True): batch_num() calls of sampler() under
\* the index order perm; each is the list of pool indices kept
GenBatches(d, bs, perm) ==
    [b \in 1..BatchNum(Len(d), bs) |-> BatchIndex(d, perm, b - 1, bs)]

\* seq, pos = exemplar_sampler.sampler() cannot unpack the zip of an empty batch
UnpackFails(batches) == \E b \in DOMAIN batches : batches[b] = <<>>

\* session = np.append(s, item) for every row of every batch, in order
CandidateRows(d, ml, batches) ==
    LET kept == Concat(batches)
    IN  [k \in 1..Len(kept) |->
            LET row == label_generator(d[kept[k]], ml)
            IN  Append(row[1], row[2])]

\* self.sess_by_item[item].append(session); an item without session has no
\* key in the code and the empty list here
SessByItem(rows, mi) ==
    [it \in 1..mi |-> SelectSeq(rows, LAMBDA r : r[Len(r)] = it)]

\* self.item_count[item - 1] += 1, or np.ones_like when disable_m
Frequency(sbi, mi, disable) ==
    [it \in 1..mi |-> IF disable THEN 1 ELSE Len(sbi[it])]

RECURSIVE MultinomialFrom(_, _, _, _)
\* np.random.multinomial(n, pvals): category j < d draws binomial(dn, w[j]/rest)
\* of the dn draws left, rest being the weight of the categories from j on;
\* the last category takes what is left
MultinomialFrom(dn, w, j, acc) ==
    IF j = Len(w) THEN {Append(acc, dn)}
    ELSE LET rest == SumSeq(SubSeq(w, j, Len(w)))
             draws == IF w[j] = 0 THEN {0}
                      ELSE IF w[j] = rest THEN {dn}
                      ELSE 0..dn
         IN  UNION {MultinomialFrom(dn - c, w, j + 1, Append(acc, c)) : c \in draws}

\* a slip: every quota is the rounded share n * w[j] / sum(w), no draw
MultinomialRounded(n, w) ==
    {[j \in 1..Len(w) |-> RoundHalfEven(n * w[j], SumSeq(w))]}

\* np.random.multinomial(n=self.m, pvals=item_prob, size=1)[0], for weights
\* w with a non-zero sum
Multinomial(n, w) == MultinomialFrom(n, w, 1, <<>>)

\* the model's logits for one input row: an uninterpreted function of the row
ModelLogits(input_seq) == [logits_of |-> input_seq]

\* seq[:, :-1]: a candidate's input, the label cut off
InputOf(session) == SubSeq(session, 1, Len(session) - 1)

\* seq[i][seq[i] != 0].tolist()
StripZeros(session) == SelectSeq(session, LAMBDA x : x # 0)

\* a slip: the stored sequence is the input only, the label cut off
ExemplarOfInputOnly(session) ==
    <<StripZeros(InputOf(session)), ModelLogits(InputOf(session))>>

\* a slip: the logits are taken for the row with its label
ExemplarOfLabelled(session) == <<StripZeros(session), ModelLogits(session)>>

\* [seq[i][seq[i] != 0].tolist(), logits[i].tolist()] for a candidate row
ExemplarOf(session) == <<StripZeros(session), ModelLogits(InputOf(session))>>

RECURSIVE Pow2Below(_)
\* the largest power of two that is at most k, for k >= 1
Pow2Below(k) == IF k < 2 THEN 1 ELSE 2 * Pow2Below(k \div 2)

\* whether the double 1.1 * mm is above the exact product 11 * mm / 10 when
\* that is an integer K = 11 * j (mm = 10 * j). The double 1.1 is
\* 1.1 + 0.4 * 2^-52, so the exact product of the two doubles is
\* K + 4 * j * 2^-52; it rounds to the double above K when that excess is
\* more than half the spacing 2^e * 2^-52 of the doubles at K, 2^e being
\* the largest power of two that is at most K (a tie rounds to K, which is
\* even)
ProductRoundsUp(mm) ==
    /\ mm > 0
    /\ mm % 10 = 0
    /\ 8 * (mm \div 10) > Pow2Below(11 * (mm \div 10))

\* step_t < 1.1 * m, the product taken in doubles as Python takes it: a
\* product that is not an integer is at least 0.1 away from every integer
BelowStepBound(t, mm) ==
    \/ 10 * t < 11 * mm
    \/ 10 * t = 11 * mm /\ ProductRoundsUp(mm)

RECURSIVE HerdingLoop(_, _, _, _)
\* the while loop of herding(): n candidates, target mm; every candidate can
\* be the argmax of a step. The set of the possible (selected_ids, step_t).
HerdingLoop(n, mm, ids, t) ==
    IF ~(Len(ids) = mm) /\ BelowStepBound(t, mm)
    THEN UNION {HerdingLoop(n, mm,
                            IF ind_max \in Range(ids)
                                THEN ids ELSE Append(ids, ind_max),
                            t + 1) : ind_max \in 1..n}
    ELSE {[ids |-> ids, steps |-> t, loss |-> <<>>]}

\* a slip: the positions are ordered by descending loss
ArgSortsDescending(loss) ==
    {p \in Shuffles(Len(loss)) :
        \A i, j \in 1..Len(loss) : i < j => loss[p[i]] >= loss[p[j]]}

\* loss.argsort(): an ordering of the positions by ascending loss
ArgSorts(loss) ==
    {p \in Shuffles(Len(loss)) :
        \A i, j \in 1..Len(loss) : i < j => loss[p[i]] <= loss[p[j]]}

\* np.random.choice(seq_num, k, replace=False)
ChoicesWithoutReplacement(n, k) == {SubSeq(p, 1, k) : p \in Shuffles(n)}

RECURSIVE Product(_)
\* one element of each set of a sequence of sets
Product(sets) ==
    IF sets = <<>> THEN {<<>>}
    ELSE {<<x>> \o rest : x \in Head(sets), rest \in Product(Tail(sets))}

\* the arguments of a call: those the called method does not take keep
\* these values
NoArgs == [data |-> <<>>, flag |-> FALSE, quarters |-> 0, exemplar |-> <<>>]

(***************************************************************************)
(* State of one Sampler object.                                            *)
(***************************************************************************)
VARIABLES
    args,            \* the arguments of the call made last (see NoArgs)
    maxlen,          \* self.maxlen
    batch_size,      \* self.batch_size
    prepared_data,   \* self.prepared_data
    data_indices,    \* self.data_indices
    batch_counter,   \* self.batch_counter
    has_logits,      \* whether the attribute self.logits exists
    logits,          \* self.logits
    last_op,         \* the method called last
    err,             \* the exception the last call raised, or "none"
    one_batch,       \* the rows of the batch the call made last built
    batch_index,     \* the pool index each row of one_batch was read from
    reshuffled,      \* whether the call made last ran the end-of-epoch shuffle
    returned,        \* what the call made last returned, if it was split_data
    supplied,        \* per pool entry: the logits it was supplied with
    kth,             \* sampler() calls since the cursor was last 0
    epoch_index,     \* the pool indices these calls returned, in order
    clean,           \* no other call moved the cursor or pool since then
    muts             \* number of add_exemplar and split_data calls

(***************************************************************************)
(* State of one ExemplarGenerator object.                                  *)
(***************************************************************************)
VARIABLES
    constructed,     \* whether __init__ returned (FALSE: it raised)
    gen_err,         \* the fault of __init__: "none"; "ValueError" (the
                     \* unpacking of an empty batch); "ValueError_pvals"
                     \* (the multinomial draw rejects NaN probabilities);
                     \* "nan" (the draw accepts them)
    data,            \* self.data: the constructor's data argument
    disable_m,       \* constructor argument
    max_item,        \* self.max_item
    m,               \* self.m
    item_count,      \* self.item_count: the per-item quotas
    sess_by_item,    \* self.sess_by_item
    exemplars,       \* self.exemplars
    last_sel,        \* the selection method called last
    sel,             \* per item: what the last selection did for it
    saved_num,       \* the total the last selection reported
    nsel             \* number of selection calls

\* one call of herding(), followed iteration by iteration
VARIABLES
    herd_pc,         \* "idle" (no call), "loop" (in the while loop), "done"
    herd_m,          \* the argument m
    herd_n,          \* len(seq): the number of candidates
    selected_ids,    \* selected_ids
    step_t,          \* step_t
    counter,         \* counter, the value returned
    herd_stored      \* len(self.exemplars[item]) after the call

hvars == <<herd_pc, herd_m, herd_n, selected_ids, step_t, counter, herd_stored>>

\* no call of herding() is followed
HerdIdle ==
    /\ herd_pc = "idle"
    /\ herd_m = 0
    /\ herd_n = 0
    /\ selected_ids = <<>>
    /\ step_t = 0
    /\ counter = 0
    /\ herd_stored = 0

gvars == <<constructed, gen_err, data, disable_m, max_item, m, item_count,
           sess_by_item, exemplars, last_sel, sel, saved_num, nsel>>

\* no ExemplarGenerator exists
GenIdle ==
    /\ constructed = FALSE
    /\ gen_err = "none"
    /\ data = <<>>
    /\ disable_m = FALSE
    /\ max_item = 0
    /\ m = 0
    /\ item_count = <<>>
    /\ sess_by_item = <<>>
    /\ exemplars = <<>>
    /\ last_sel = "none"
    /\ sel = <<>>
    /\ saved_num = 0
    /\ nsel = 0

\* no Sampler exists
SamplerIdle ==
    /\ args = NoArgs
    /\ maxlen = 0
    /\ batch_size = 0
    /\ prepared_data = <<>>
    /\ data_indices = <<>>
    /\ batch_counter = 0
    /\ has_logits = FALSE
    /\ logits = <<>>
    /\ last_op = "none"
    /\ err = "none"
    /\ one_batch = <<>>
    /\ batch_index = <<>>
    /\ reshuffled = FALSE
    /\ returned = <<>>
    /\ supplied = <<>>
    /\ kth = 0
    /\ epoch_index = <<>>
    /\ clean = FALSE
    /\ muts = 0

svars == <<args, maxlen, batch_size, prepared_data, data_indices,
           batch_counter, has_logits, logits, last_op, err, one_batch,
           batch_index, reshuffled, returned, supplied, kth, epoch_index,
           clean, muts>>

vars == <<svars, gvars, hvars>>

batch_num == BatchNum(Len(prepared_data), batch_size)

\* Sampler.__init__ on data of the set D with maxlen in MLs and batch_size
\* in BSs
Constructed(D, MLs, BSs) ==
    /\ \E d \in D, subseq \in BOOLEAN :
          args = [NoArgs EXCEPT !.data = d, !.flag = subseq]
    /\ maxlen \in MLs
    /\ batch_size \in BSs
    /\ prepared_data = PreparedData(args.data, args.flag)
    /\ data_indices \in Shuffles(Len(prepared_data))
    /\ batch_counter = 0
    /\ has_logits = FALSE
    /\ logits = <<>>
    /\ last_op = "init"
    /\ err = "none"
    /\ one_batch = <<>>
    /\ batch_index = <<>>
    /\ reshuffled = FALSE
    /\ returned = <<>>
    /\ supplied = [i \in 1..Len(prepared_data) |-> NoLogits]
    /\ kth = 0
    /\ epoch_index = <<>>
    /\ clean = TRUE
    /\ muts = 0
    /\ GenIdle
    /\ HerdIdle

\* a slip: the cursor is compared before it is advanced
WrapsLate(bc) == bc = batch_num

\* self.batch_counter += 1; if self.batch_counter == self.batch_num()
WrapsAfter(bc) == bc + 1 = batch_num

\* the end of sampler() and exemplar_sampler(): advance the cursor, and at
\* the end of the epoch reset it and reshuffle

AdvanceCursor ==
    IF WrapsAfter(batch_counter)
    THEN /\ batch_counter' = 0
         /\ data_indices' \in Shuffles(Len(prepared_data))
         /\ reshuffled' = TRUE
    ELSE /\ batch_counter' = batch_counter + 1
         /\ data_indices' = data_indices
         /\ reshuffled' = FALSE

\* Sampler.sampler
sampler ==
    /\ batch_counter < MaxCounter
    /\ LET kept == BatchIndex(prepared_data, data_indices, batch_counter, batch_size)
       IN  /\ batch_index' = kept
           /\ one_batch' = [k \in 1..Len(kept) |-> label_generator(prepared_data[kept[k]], maxlen)]
    /\ AdvanceCursor
    /\ last_op' = "sampler"
    /\ err' = "none"
    /\ kth' = IF batch_counter = 0 THEN 1 ELSE kth + 1
    /\ epoch_index' = IF batch_counter = 0 THEN batch_index'
                                            ELSE epoch_index \o batch_index'
    /\ clean' = IF batch_counter = 0 THEN TRUE ELSE clean
    /\ args' = NoArgs
    /\ returned' = <<>>
    /\ UNCHANGED <<maxlen, batch_size, prepared_data, has_logits, logits,
                   supplied, muts>>
    /\ UNCHANGED <<gvars, hvars>>

\* Sampler.exemplar_sampler: as sampler(), and each kept row also reads
\* self.logits[index]; a read that fails raises before the cursor moves
exemplar_sampler ==
    /\ batch_counter < MaxCounter
    /\ last_op' = "exemplar_sampler"
    /\ LET kept == BatchIndex(prepared_data, data_indices, batch_counter, batch_size)
       IN  IF kept # <<>> /\ ~has_logits
           THEN /\ err' = "AttributeError"
                /\ one_batch' = <<>>
                /\ batch_index' = <<>>
                /\ UNCHANGED <<batch_counter, data_indices, reshuffled, kth,
                                epoch_index, clean>>
           ELSE IF \E k \in 1..Len(kept) : kept[k] > Len(logits)
           THEN /\ err' = "IndexError"
                /\ one_batch' = <<>>
                /\ batch_index' = <<>>
                /\ UNCHANGED <<batch_counter, data_indices, reshuffled, kth,
                                epoch_index, clean>>
           ELSE /\ err' = "none"
                /\ batch_index' = kept
                /\ one_batch' = [k \in 1..Len(kept) |->
                                   label_generator(prepared_data[kept[k]], maxlen)
                                       \o <<logits[kept[k]]>>]
                /\ AdvanceCursor
                /\ kth' = 0
                /\ epoch_index' = <<>>
                /\ clean' = FALSE
    /\ args' = NoArgs
    /\ returned' = <<>>
    /\ UNCHANGED <<maxlen, batch_size, prepared_data, has_logits, logits,
                   supplied, muts>>
    /\ UNCHANGED <<gvars, hvars>>

\* Sampler.add_exemplar
add_exemplar(exemplar) ==
    /\ muts < MaxMuts
    /\ Len(prepared_data) + Len(exemplar) <= MaxPool
    /\ logits' = [k \in 1..Len(exemplar) |-> exemplar[k][2]]
    /\ has_logits' = TRUE
    /\ prepared_data' = prepared_data \o [k \in 1..Len(exemplar) |-> exemplar[k][1]]
    /\ data_indices' \in Shuffles(Len(prepared_data'))
    /\ supplied' = supplied \o [k \in 1..Len(exemplar) |-> exemplar[k][2]]
    /\ last_op' = "add_exemplar"
    /\ err' = "none"
    /\ kth' = 0
    /\ epoch_index' = <<>>
    /\ clean' = FALSE
    /\ muts' = muts + 1
    /\ args' = [NoArgs EXCEPT !.exemplar = exemplar]
    /\ one_batch' = <<>>
    /\ batch_index' = <<>>
    /\ reshuffled' = FALSE
    /\ returned' = <<>>
    /\ UNCHANGED <<maxlen, batch_size, batch_counter>>
    /\ UNCHANGED <<gvars, hvars>>

\* Sampler.split_data
split_data(quarters, return_train) ==
    /\ muts < MaxMuts
    /\ LET data_size == Len(prepared_data)
           n_train == NTrain(data_size, quarters)
       IN  \E sidx \in Shuffles(data_size) :
             LET valid_data == ValidData(prepared_data, sidx, n_train)
                 train_data == TrainData(prepared_data, sidx, n_train)
             IN  /\ prepared_data' = train_data
                 /\ supplied' = [k \in 1..n_train |-> supplied[sidx[k]]]
                 /\ returned' = IF return_train THEN <<valid_data, train_data>>
                                                ELSE <<valid_data>>
    /\ data_indices' \in Shuffles(Len(prepared_data'))
    /\ last_op' = "split_data"
    /\ err' = "none"
    /\ kth' = 0
    /\ epoch_index' = <<>>
    /\ clean' = FALSE
    /\ muts' = muts + 1
    /\ args' = [NoArgs EXCEPT !.quarters = quarters, !.flag = return_train]
    /\ one_batch' = <<>>
    /\ batch_index' = <<>>
    /\ reshuffled' = FALSE
    /\ UNCHANGED <<maxlen, batch_size, batch_counter, has_logits, logits>>
    /\ UNCHANGED <<gvars, hvars>>

\* a Sampler on any data of DataSet
EpochInit == Constructed(DataSet, MaxlenSet, BatchSizeSet)

\* the epochs of a Sampler whose pool is left alone: sampler() only
EpochNext == sampler

SpecEpoch == EpochInit /\ [][EpochNext]_vars

\* a Sampler with maxlen = 2 and batch_size = 2 whose pool is only split:
\* split_data reads neither maxlen nor batch_size
SplitInit == Constructed(DataSet, {2}, {2})

SplitNext ==
    \E quarters \in Portions, return_train \in BOOLEAN : split_data(quarters, return_train)

SpecSplit == SplitInit /\ [][SplitNext]_vars

\* a Sampler on any data of DataSet; every method may be called
SamplerInit == Constructed(DataSet, MaxlenSet, BatchSizeSet)

SamplerNext ==
    \/ sampler
    \/ exemplar_sampler
    \/ \E exemplar \in ExemplarLists : add_exemplar(exemplar)
    \/ \E quarters \in Portions, return_train \in BOOLEAN : split_data(quarters, return_train)

SpecSampler == SamplerInit /\ [][SamplerNext]_vars

(***************************************************************************)
(* ExemplarGenerator.                                                      *)
(***************************************************************************)
\* what a selection records for an item it does not handle
NotSelected == [ids |-> <<>>, steps |-> 0, loss |-> <<>>]

NoExemplars(mi) == [it \in 1..mi |-> <<>>]

\* ExemplarGenerator.__init__ failed before the object existed
GenFailed(fault, mi, size, dis) ==
    /\ constructed = FALSE
    /\ gen_err = fault
    /\ disable_m = dis
    /\ max_item = mi
    /\ m = size
    /\ item_count = [it \in 1..mi |-> 0]
    /\ sess_by_item = NoExemplars(mi)

\* ExemplarGenerator.__init__
GenConstruct(d, ml, bs, perm, mi, size, dis) ==
    LET batches == GenBatches(d, bs, perm)
        sbi     == SessByItem(CandidateRows(d, ml, batches), mi)
        w       == Frequency(sbi, mi, dis)
    IN  IF UnpackFails(batches)
        THEN GenFailed("ValueError", mi, size, dis)
        ELSE IF SumSeq(w) = 0
        THEN \* 0/0: the probabilities are NaN; the multinomial draw rejects
             \* them or, in a numpy that does not check, yields garbage
             \/ GenFailed("ValueError_pvals", mi, size, dis)
             \/ /\ constructed = TRUE
                /\ gen_err = "nan"
                /\ disable_m = dis
                /\ max_item = mi
                /\ m = size
                /\ sess_by_item = sbi
                /\ item_count \in [1..mi -> 0..size]
        ELSE /\ constructed = TRUE
             /\ gen_err = "none"
             /\ disable_m = dis
             /\ max_item = mi
             /\ m = size
             /\ sess_by_item = sbi
             /\ item_count \in Multinomial(size, w)

GenInit ==
    /\ \E d \in GenDataSet, ml \in MaxlenSet, bs \in BatchSizeSet,
          mi \in MaxItemSet, size \in 0..MaxBudget, dis \in BOOLEAN :
          \E perm \in Shuffles(Len(d)) :
             /\ data = d
             /\ GenConstruct(d, ml, bs, perm, mi, size, dis)
    /\ exemplars = NoExemplars(max_item)
    /\ last_sel = "none"
    /\ sel = [it \in 1..max_item |-> NotSelected]
    /\ saved_num = 0
    /\ nsel = 0
    /\ SamplerIdle
    /\ HerdIdle

\* for item in self.sess_by_item
HasSessions(it) == sess_by_item[it] # <<>>

\* the exemplars of the candidates ids of item it
Picked(it, ids) == [k \in 1..Len(ids) |-> ExemplarOf(sess_by_item[it][ids[k]])]

\* what a selection call leaves alone
SelectionFrame ==
    /\ nsel' = nsel + 1
    /\ UNCHANGED <<constructed, gen_err, data, disable_m, max_item, m, item_count,
                   sess_by_item>>
    /\ UNCHANGED <<svars, hvars>>

\* herding() for item it: the possible (selected_ids, step_t)
HerdingOutcomes(it) ==
    IF HasSessions(it)
    THEN HerdingLoop(Len(sess_by_item[it]),
                     Min(item_count[it], Len(sess_by_item[it])), <<>>, 0)
    ELSE {NotSelected}

\* ExemplarGenerator.herding_selection, with herding() for every item
herding_selection ==
    /\ constructed
    /\ nsel < MaxSelections
    /\ \E ch \in Product([it \in 1..max_item |-> HerdingOutcomes(it)]) :
          /\ sel' = ch
          /\ exemplars' = [it \in 1..max_item |->
                              IF HasSessions(it) THEN Picked(it, ch[it].ids)
                                                 ELSE exemplars[it]]
          /\ saved_num' = SumSeq([it \in 1..max_item |-> Len(ch[it].ids)])
    /\ last_sel' = "herding"
    /\ SelectionFrame

\* if m < 0.5: continue
LossHandles(it) == HasSessions(it) /\ ~(2 * item_count[it] < 1)

\* loss_selection for item it: the possible losses and selected_ids
LossOutcomes(it) ==
    IF LossHandles(it)
    THEN LET seq_num == Len(sess_by_item[it])
         IN  UNION {{[ids |-> SubSeq(p, 1, Min(item_count[it], seq_num)),
                      steps |-> 0, loss |-> lo] : p \in ArgSorts(lo)} :
                       lo \in [1..seq_num -> LossVals]}
    ELSE {NotSelected}

\* ExemplarGenerator.loss_selection
loss_selection ==
    /\ constructed
    /\ nsel < MaxSelections
    /\ \E ch \in Product([it \in 1..max_item |-> LossOutcomes(it)]) :
          /\ sel' = ch
          /\ exemplars' = [it \in 1..max_item |->
                              IF LossHandles(it) THEN Picked(it, ch[it].ids)
                                                 ELSE exemplars[it]]
          /\ saved_num' = SumSeq([it \in 1..max_item |-> Len(ch[it].ids)])
    /\ last_sel' = "loss"
    /\ SelectionFrame

\* if m > 0
RandomHandles(it) == HasSessions(it) /\ item_count[it] > 0

\* randomly_selection for item it: the possible selected_ids
RandomOutcomes(it) ==
    IF RandomHandles(it)
    THEN LET seq_num == Len(sess_by_item[it])
         IN  {[ids |-> ids, steps |-> 0, loss |-> <<>>] :
                  ids \in ChoicesWithoutReplacement(seq_num, Min(item_count[it], seq_num))}
    ELSE {NotSelected}

\* ExemplarGenerator.randomly_selection
randomly_selection ==
    /\ constructed
    /\ nsel < MaxSelections
    /\ \E ch \in Product([it \in 1..max_item |-> RandomOutcomes(it)]) :
          /\ sel' = ch
          /\ exemplars' = [it \in 1..max_item |->
                              IF RandomHandles(it)
                              THEN exemplars[it] \o Picked(it, ch[it].ids)
                              ELSE exemplars[it]]
          /\ saved_num' = SumSeq([it \in 1..max_item |-> Len(ch[it].ids)])
    /\ last_sel' = "random"
    /\ SelectionFrame

GenNext ==
    \/ herding_selection
    \/ loss_selection
    \/ randomly_selection

SpecGen == GenInit /\ [][GenNext]_vars

\* a generator that is used once: one selection call after construction
SelectNext ==
    \/ nsel = 0 /\ herding_selection
    \/ nsel = 0 /\ loss_selection
    \/ nsel = 0 /\ randomly_selection

SpecSelect == GenInit /\ [][SelectNext]_vars

(***************************************************************************)
(* The hand-off of exemplars: a generator on one sub-sequence, one         *)
(* selection, then a new Sampler that takes the exemplars of an item.      *)
(***************************************************************************)
\* Sampler(data=[], maxlen, batch_size, is_subseq=True): Sampler.__init__ as
\* a call made while the generator exists
new_sampler(ml, bs) ==
    /\ last_op = "none"
    /\ maxlen' = ml
    /\ batch_size' = bs
    /\ prepared_data' = PreparedData(<<>>, TRUE)
    /\ data_indices' \in Shuffles(Len(prepared_data'))
    /\ batch_counter' = 0
    /\ has_logits' = FALSE
    /\ logits' = <<>>
    /\ last_op' = "init"
    /\ err' = "none"
    /\ args' = [NoArgs EXCEPT !.flag = TRUE]
    /\ one_batch' = <<>>
    /\ batch_index' = <<>>
    /\ reshuffled' = FALSE
    /\ returned' = <<>>
    /\ supplied' = <<>>
    /\ kth' = 0
    /\ epoch_index' = <<>>
    /\ clean' = TRUE
    /\ muts' = 0
    /\ UNCHANGED <<gvars, hvars>>

\* a generator constructed from one sub-sequence
HandoffInit ==
    /\ \E i \in 1..Len(GenSessions), ml \in MaxlenSet, bs \in BatchSizeSet,
          mi \in MaxItemSet, size \in 0..MaxBudget, dis \in BOOLEAN :
             /\ data = <<GenSessions[i]>>
             /\ GenConstruct(data, ml, bs, <<1>>, mi, size, dis)
    /\ exemplars = NoExemplars(max_item)
    /\ last_sel = "none"
    /\ sel = [it \in 1..max_item |-> NotSelected]
    /\ saved_num = 0
    /\ nsel = 0
    /\ SamplerIdle
    /\ HerdIdle

HandoffNext ==
    \/ nsel = 0 /\ herding_selection
    \/ nsel = 0 /\ loss_selection
    \/ nsel = 0 /\ randomly_selection
    \/ \E ml \in MaxlenSet, bs \in BatchSizeSet : nsel = 1 /\ new_sampler(ml, bs)
    \/ \E it \in 1..max_item : last_op = "init" /\ add_exemplar(exemplars[it])
    \/ has_logits /\ sampler

SpecHandoff == HandoffInit /\ [][HandoffNext]_vars

(***************************************************************************)
(* One call of herding(), iteration by iteration.                          *)
(***************************************************************************)
\* herding(rep, logits, item, seq, m) is entered: any target and some numbers
\* of candidates; herding_selection passes min(quota, len(seq))
HerdInit ==
    /\ herd_pc = "loop"
    /\ herd_m \in 0..MaxTarget
    /\ herd_n \in CandidateCounts
    /\ selected_ids = <<>>
    /\ step_t = 0
    /\ counter = 0
    /\ herd_stored = 0
    /\ SamplerIdle
    /\ GenIdle

\* one iteration of the while loop. The argmax is any candidate; the loop
\* only asks whether it is in selected_ids, so the candidates are numbered
\* in the order of their selection: ind_max is a selected one or the next
herding_step ==
    /\ herd_pc = "loop"
    /\ ~(Len(selected_ids) = herd_m) /\ BelowStepBound(step_t, herd_m)
    /\ \E ind_max \in 1..Min(Len(selected_ids) + 1, herd_n) :
          IF ind_max \in Range(selected_ids)
          THEN UNCHANGED <<selected_ids, counter>>
          ELSE /\ selected_ids' = Append(selected_ids, ind_max)
               /\ counter' = counter + 1
    /\ step_t' = step_t + 1
    /\ UNCHANGED <<herd_pc, herd_m, herd_n, herd_stored>>
    /\ UNCHANGED <<svars, gvars>>

\* the loop condition fails: self.exemplars[item] = [... for i in
\* selected_ids]; return counter
herding_return ==
    /\ herd_pc = "loop"
    /\ ~(~(Len(selected_ids) = herd_m) /\ BelowStepBound(step_t, herd_m))
    /\ herd_stored' = Len(selected_ids)
    /\ herd_pc' = "done"
    /\ UNCHANGED <<herd_m, herd_n, selected_ids, step_t, counter>>
    /\ UNCHANGED <<svars, gvars>>

HerdNext ==
    \/ herding_step
    \/ herding_return

SpecHerding == HerdInit /\ [][HerdNext]_vars

(***************************************************************************)
(* Properties of the Sampler.                                              *)
(***************************************************************************)
\* the number of pool entries a session of length L is to give
EntriesOf(session) == IF Len(session) > 2 THEN Len(session) - 1 ELSE 1

\* the pool position before the first entry of the k-th session
OffsetOf(d, k) == SumSeq([j \in 1..(k - 1) |-> EntriesOf(d[j])])

\* C1: a Sampler constructed with is_subseq=False holds, for every input
\* session of length L, exactly L-1 entries when L > 2 (the session, then its
\* prefixes of lengths L-1 down to 2) and exactly 1 entry (the session) when
\* L <= 2; the pool size is the sum of these counts.
C1_Expansion ==
    (last_op = "init" /\ ~args.flag) =>
        LET d == args.data
        IN  /\ Len(prepared_data) = SumSeq([k \in 1..Len(d) |-> EntriesOf(d[k])])
            /\ \A k \in 1..Len(d) : \A i \in 0..(EntriesOf(d[k]) - 1) :
                   prepared_data[OffsetOf(d, k) + i + 1] = SubSeq(d[k], 1, Len(d[k]) - i)

C1_Witness ==
    /\ last_op = "init" /\ ~args.flag
    /\ Len(args.data) = 2
    /\ Len(args.data[1]) > 2 /\ Len(args.data[2]) <= 2
    /\ Len(prepared_data) = Len(args.data[1])

\* zeros only on the left: no 0 at a higher position than a non-zero item
RightAligned(seq) == \A i, j \in 1..Len(seq) : (i < j /\ seq[j] = 0) => seq[i] = 0

\* C2: every input sequence of a batch returned by sampler() has exactly
\* maxlen elements, and the sentinel 0 never occurs after a non-sentinel item.
C2_Padding ==
    last_op = "sampler" =>
        \A k \in 1..Len(one_batch) :
            /\ Len(one_batch[k][1]) = maxlen
            /\ RightAligned(one_batch[k][1])

C2_Witness ==
    /\ last_op = "sampler"
    /\ maxlen = 2
    /\ \E k \in 1..Len(one_batch) : one_batch[k][1][1] = 0 /\ one_batch[k][1][2] # 0
    /\ \E k \in 1..Len(one_batch) : one_batch[k][1][1] # 0

\* C3: on an unmutated pool, counting the sampler() calls from cursor 0, the
\* k-th call leaves batch_counter = k for k < batch_num(), and the
\* batch_num()-th call leaves it 0 and has reshuffled the index.
C3_Wraparound ==
    (clean /\ kth >= 1) =>
        /\ kth < batch_num => batch_counter = kth
        /\ kth = batch_num => (batch_counter = 0 /\ reshuffled)

C3_Witness ==
    /\ clean /\ batch_num >= 2 /\ kth = batch_num
    /\ batch_counter = 0 /\ reshuffled /\ last_op = "sampler"

\* how many positions of seq hold x
Occurrences(seq, x) == Cardinality({i \in 1..Len(seq) : seq[i] = x})

\* C4: split_data(valid_portion, return_train=True) returns a validation and
\* a training subset taken from disjoint positions of the pool as it was
\* before the call, together covering all of it (so the sizes sum to the old
\* pool size: every entry occurs in the two subsets as often as in the old
\* pool), and leaves the training subset as the pool.
C4_Split ==
    [][ (last_op' = "split_data" /\ Len(returned') = 2) =>
          LET valid == returned'[1]
              train == returned'[2]
          IN  /\ Len(valid) + Len(train) = Len(prepared_data)
              /\ \A x \in Range(prepared_data) :
                     Occurrences(train \o valid, x) = Occurrences(prepared_data, x)
              /\ prepared_data' = train ]_vars

C4_Witness ==
    /\ last_op = "split_data" /\ Len(returned) = 2
    /\ Len(returned[1]) = 1 /\ Len(returned[2]) = 2
    /\ returned[2][1] # returned[2][2]
    /\ prepared_data = returned[2]

\* C8: for a sub-sequence s of length n >= 2, label_generator gives the label
\* s[n] and an input whose last min(n-1, maxlen) positions hold, in order, the
\* items just before the label, every earlier position being 0.
C8_LabelGenerator ==
    last_op \in {"sampler", "exemplar_sampler"} =>
        \A k \in 1..Len(one_batch) :
            LET s    == prepared_data[batch_index[k]]
                n    == Len(s)
                keep == Min(n - 1, maxlen)
                seq  == one_batch[k][1]
            IN  /\ n >= 2
                /\ one_batch[k][2] = s[n]
                /\ DOMAIN seq = 1..maxlen
                /\ \A j \in 1..maxlen :
                       seq[j] = IF j > maxlen - keep THEN s[(n - 1) - (maxlen - j)] ELSE 0

C8_Witness ==
    /\ last_op = "sampler" /\ maxlen = 1
    /\ \E k \in 1..Len(one_batch) :
          /\ Len(prepared_data[batch_index[k]]) = 3
          /\ one_batch[k] = <<(<<2>>), 3>>

\* C9: once add_exemplar has been called, every row exemplar_sampler()
\* builds carries the logits that were supplied with the session of that row
\* (and the read of logits[i] succeeds).
C9_LogitsAligned ==
    (has_logits /\ last_op = "exemplar_sampler") =>
        /\ err = "none"
        /\ \A k \in 1..Len(one_batch) : one_batch[k][3] = supplied[batch_index[k]]

(***************************************************************************)
(* Properties of the ExemplarGenerator.                                    *)
(***************************************************************************)
\* C5: after construction with budget m, from data with a non-zero
\* frequency table or with frequency allocation disabled, the quotas are
\* non-negative integers, one per item 1..max_item, and sum to m exactly.
C5_QuotaSum ==
    (constructed /\ gen_err = "none") =>
        /\ DOMAIN item_count = 1..max_item
        /\ \A it \in 1..max_item : item_count[it] \in Nat
        /\ SumSeq(item_count) = m

C5_Witness ==
    /\ constructed /\ gen_err = "none" /\ ~disable_m /\ nsel = 0
    /\ m = 2 /\ item_count = <<0, 1, 1>>
    /\ Len(sess_by_item[2]) = 2

\* C6: after a selection by any of the three strategies, no item holds more
\* exemplars than min(its quota, its number of candidate sessions); an item
\* with quota 0 holds none.
C6_QuotaBound ==
    (constructed /\ nsel >= 1) =>
        \A it \in 1..max_item :
            Len(exemplars[it]) <= Min(item_count[it], Len(sess_by_item[it]))

\* the candidates of item it whose loss is among the k lowest
Lowest(loss, k) ==
    {i \in 1..Len(loss) : Cardinality({j \in 1..Len(loss) : loss[j] < loss[i]}) < k}

Distinct(loss) == \A i, j \in 1..Len(loss) : i # j => loss[i] # loss[j]

\* C7: for an item with quota q >= 1 and n candidates of pairwise distinct
\* losses, loss_selection stores exactly the min(q, n) candidates of lowest
\* loss, each once, and nothing else.
C7_LowestLoss ==
    last_sel = "loss" =>
        \A it \in 1..max_item :
            (HasSessions(it) /\ item_count[it] >= 1 /\ Distinct(sel[it].loss)) =>
                LET n == Len(sess_by_item[it])
                    k == Min(item_count[it], n)
                    ids == sel[it].ids
                IN  /\ Len(sel[it].loss) = n
                    /\ Len(ids) = k
                    /\ Range(ids) = Lowest(sel[it].loss, k)
                    /\ Len(exemplars[it]) = k
                    /\ \A x \in 1..k :
                           exemplars[it][x] = ExemplarOf(sess_by_item[it][ids[x]])

C7_Witness ==
    /\ last_sel = "loss" /\ max_item >= 2
    /\ item_count[2] = 2 /\ Len(sess_by_item[2]) = 3
    /\ sel[2].loss = <<3, 1, 2>>
    /\ sel[2].ids = <<2, 3>>
    /\ Len(exemplars[2]) = 2

\* the nonzero items of a candidate's input, in order; then its label
SessionItems(session) == StripZeros(InputOf(session)) \o <<session[Len(session)]>>

\* the exemplars the last selection call stored for item it: all of
\* exemplars[it], or its tail when the call appended
StoredLast(it) ==
    SubSeq(exemplars[it], Len(exemplars[it]) - Len(sel[it].ids) + 1, Len(exemplars[it]))

\* C10 as stated: every stored exemplar is (a candidate's input sequence,
\* label excluded, with the zeros removed; the model output for it).
C10_InputOnly ==
    (constructed /\ nsel >= 1) =>
        \A it \in 1..max_item : \A x \in 1..Len(exemplars[it]) :
            \E i \in 1..Len(sess_by_item[it]) :
                exemplars[it][x] = << StripZeros(InputOf(sess_by_item[it][i])),
                                      ModelLogits(InputOf(sess_by_item[it][i])) >>

\* C10 amended: every exemplar stored for item it is (the nonzero items of a
\* candidate's input, in order, followed by the label it; the model output
\* for that candidate's input), and the x-th exemplar a selection call stores
\* is that of the candidate the call selected x-th.
C10_SessionWithLabel ==
    (constructed /\ nsel >= 1) =>
        \A it \in 1..max_item :
            /\ \A x \in 1..Len(exemplars[it]) :
                   \E i \in 1..Len(sess_by_item[it]) :
                       /\ exemplars[it][x][1] = SessionItems(sess_by_item[it][i])
                       /\ exemplars[it][x][1][Len(exemplars[it][x][1])] = it
                       /\ exemplars[it][x][2] = ModelLogits(InputOf(sess_by_item[it][i]))
            /\ Len(sel[it].ids) <= Len(exemplars[it])
            /\ \A x \in 1..Len(sel[it].ids) :
                   LET c == sess_by_item[it][sel[it].ids[x]]
                   IN  StoredLast(it)[x] = <<SessionItems(c), ModelLogits(InputOf(c))>>

C10_Witness ==
    /\ constructed /\ nsel = 1 /\ max_item >= 2
    /\ Len(sess_by_item[2]) = 2
    /\ sess_by_item[2][1] = <<0, 1, 2>>
    /\ sel[2].ids = <<2, 1>>
    /\ exemplars[2][2] = << <<1, 2>>, ModelLogits(<<0, 1>>) >>

\* the data gives the constructor's loop no row: every sub-sequence is
\* skipped by sampler() (length <= 1), or there is none
NoCandidates == \A k \in 1..Len(data) : Len(data[k]) <= 1

\* C11: a construction from data without candidate sub-sequences (so the
\* frequency table is all zeros), frequency allocation enabled, raises the
\* domain error "no candidate sessions for exemplar selection" and leaves
\* no quota table.
C11_DomainError ==
    (max_item > 0 /\ ~disable_m /\ NoCandidates) =>
        (~constructed /\ gen_err = "no candidate sessions for exemplar selection")

\* C12: on one instance only the first selection call takes effect: a call
\* made after a selection leaves the exemplar store as it was.
C12_SelectOnce == [][ nsel >= 1 => exemplars' = exemplars ]_vars

\* ceil(1.1 * mm)
CeilStepBound(mm) == (11 * mm + 9) \div 10

\* C13: a herding() call with target m makes at most ceil(1.1 * m)
\* iterations; the selected indices are pairwise distinct and at most m;
\* once m are selected no further iteration is made; and the count returned
\* is the number of exemplars stored for the item.
C13_Herding ==
    /\ [](herd_pc # "idle" =>
            /\ step_t <= CeilStepBound(herd_m)
            /\ Len(selected_ids) <= herd_m
            /\ \A i, j \in 1..Len(selected_ids) :
                   i # j => selected_ids[i] # selected_ids[j]
            /\ herd_pc = "done" => counter = herd_stored)
    /\ [][ (herd_pc = "loop" /\ Len(selected_ids) = herd_m) =>
              (selected_ids' = selected_ids /\ step_t' = step_t) ]_vars

\* the pool positions the kth call of an epoch reads
PositionsOfCall(k) ==
    {i \in 1..Len(prepared_data) : (k - 1) * batch_size < i /\ i <= k * batch_size}

\* C14: on a pool that only sampler() touches, counting the calls from
\* cursor 0: no batch has more than batch_size entries; a batch before the
\* last one of the epoch has one entry for each of the batch_size positions
\* it reads that holds a session of length >= 2; and after the
\* batch_num()-th call every pool entry of length >= 2 has been returned
\* exactly once in the epoch and every entry of length <= 1 never.
C14_EpochCoverage ==
    (clean /\ kth >= 1 /\ last_op = "sampler") =>
        /\ Len(one_batch) <= batch_size
        /\ Len(one_batch) = Len(batch_index)
        /\ kth < batch_num =>
               /\ Cardinality(PositionsOfCall(kth)) = batch_size
               /\ Len(batch_index) =
                      Cardinality({i \in PositionsOfCall(kth) :
                                      Len(prepared_data[data_indices[i]]) >= 2})
        /\ kth = batch_num =>
               \A i \in 1..Len(prepared_data) :
                   Occurrences(epoch_index, i) =
                       IF Len(prepared_data[i]) >= 2 THEN 1 ELSE 0

C14_Witness ==
    /\ clean /\ last_op = "sampler" /\ kth = batch_num /\ batch_num = 2
    /\ batch_size = 2 /\ Len(prepared_data) = 3
    /\ \E i \in 1..3 : Len(prepared_data[i]) <= 1
    /\ Len(epoch_index) = 2

\* C15: the cursor of a Sampler stays within the epoch:
\* 0 <= batch_counter < max(1, batch_num()).
C15_CursorInEpoch ==
    last_op # "none" =>
        /\ 0 <= batch_counter
        /\ batch_counter < (IF batch_num >= 1 THEN batch_num ELSE 1)

\* the one sub-sequence the generator was constructed from is in the range
\* of the claim: length 2 .. maxlen + 1 for the generator's maxlen (its
\* candidate row has maxlen + 1 entries), no item 0
HandoffSession ==
    /\ constructed /\ Len(data) = 1
    /\ Len(data[1]) >= 2
    /\ \A i \in 1..Len(data[1]) : data[1][i] # 0
    /\ LET it == data[1][Len(data[1])]
       IN  /\ it \in 1..max_item
           /\ Len(sess_by_item[it]) = 1
           /\ Len(data[1]) <= Len(sess_by_item[it][1])

\* C16: for a session in that range selected as exemplar and handed by
\* add_exemplar to a new Sampler, the pool entry is the session itself, and
\* label_generator reads back from it the input and the label it gives for
\* the session; with the generator's maxlen these are the candidate row the
\* generator got from label_generator for the session.
C16_RoundTrip ==
    (HandoffSession /\ has_logits) =>
        LET orig == data[1]
            row  == sess_by_item[orig[Len(orig)]][1]
        IN  /\ \A i \in 1..Len(prepared_data) : prepared_data[i] = orig
            /\ last_op = "sampler" =>
                   \A k \in 1..Len(one_batch) :
                       /\ one_batch[k] = label_generator(orig, maxlen)
                       /\ Len(row) = maxlen + 1 =>
                              /\ one_batch[k][1] = InputOf(row)
                              /\ one_batch[k][2] = row[Len(row)]

C16_Witness ==
    /\ HandoffSession /\ has_logits /\ last_op = "sampler"
    /\ data = <<(<<1, 2>>)>> /\ maxlen = 2
    /\ sess_by_item[2] = <<(<<0, 1, 2>>)>>
    /\ prepared_data = <<(<<1, 2>>)>>
    /\ one_batch = <<(<<(<<0, 1>>), 2>>)>>

====
